---- MODULE Spec2Model ----
(***************************************************************************)
(* Model of pptx_to_markdown.py: the archive image extractor, the single   *)
(* file conversion pipeline, the batch driver and main, over the state of  *)
(* the output directory (temp_extract, <stem>.md, <stem>_images).          *)
(*                                                                         *)
(* File names are sequences of code points, so that Path.suffix,           *)
(* str.lower and the ordering used by sorted() are computed, not assumed.  *)
(***************************************************************************)
EXTENDS Naturals, Integers, Sequences, FiniteSets, TLC

VARIABLES
    pc,               \* position of the program
    runs,             \* number of times the program was started
    mode,             \* "single" (-f) or "batch"
    keep_images,      \* args.keep_images
    tool_ok,          \* outcome of the startup check of main
    pptx_files,       \* the files this run was asked to convert
    queue,            \* files the loop of batch_convert has not reached yet
    processed,        \* files passed to convert_pptx_to_markdown, in order
    successful,       \* batch_convert's tally
    failed,           \* batch_convert's tally
    exit_code,        \* exit status of the process
    cur,              \* pptx_path.stem of the file being converted
    archive,          \* content of the file being converted
    images,           \* images returned by extract_images_from_pptx
    temp_ref,         \* temp_extract returned by it: TRUE a path, FALSE None
    returncode,       \* exit status of the converter subprocess, -1 while there is none
    markdown_content, \* result.stdout
    result,           \* outcome of convert_pptx_to_markdown
    temp_extract,     \* <output_dir>/temp_extract on disk
    docs,             \* <output_dir>/<stem>.md on disk, per stem
    img_dirs,         \* <output_dir>/<stem>_images on disk, per stem
    doc0,             \* <stem>.md when the current invocation started
    img_dir0          \* <stem>_images when the current invocation started

vars == <<pc, runs, mode, keep_images, tool_ok, pptx_files, queue, processed,
          successful, failed, exit_code, cur, archive, images, temp_ref,
          returncode, markdown_content, result, temp_extract, docs, img_dirs,
          doc0, img_dir0>>

(***************************************************************************)
(* Bounds and input domains                                                *)
(***************************************************************************)
MaxRuns == 2
MaxMedia == 2

Stems == {"deck", "talk"}
StdOuts == {"slides-v1", "slides-v2"}
ReturnCodes == {0, 1}

\* b.png, A.JPG, c.xml
MediaNames == { <<98, 46, 112, 110, 103>>,
                <<65, 46, 74, 80, 71>>,
                <<99, 46, 120, 109, 108>> }

Range(s) == { s[i] : i \in 1..Len(s) }

NoDup(s) == \A i, j \in 1..Len(s) : i # j => s[i] # s[j]

SeqsUpTo(S, n) == UNION { [1..k -> S] : k \in 0..n }

\* An input file: zip says whether it opens as a zip archive; media are its
\* ppt/media members in archive order, followed by one member outside
\* ppt/media; bad = k > 0 says that reading member k fails its CRC check.
Archives ==
    { a \in [zip : {TRUE}, media : SeqsUpTo(MediaNames, MaxMedia), bad : 0..(MaxMedia + 1)] :
        NoDup(a.media) /\ a.bad <= Len(a.media) + 1 }
    \cup { [zip |-> FALSE, media |-> <<>>, bad |-> 0] }

NoArchive == [zip |-> FALSE, media |-> <<>>, bad |-> 0]

InputLists == { s \in SeqsUpTo(Stems, Cardinality(Stems)) : NoDup(s) }

(***************************************************************************)
(* extract_images_from_pptx                                                *)
(***************************************************************************)
Max(S) == CHOOSE x \in S : \A y \in S : y <= x

\* str.lower on one code point
Lower(c) == IF c >= 65 /\ c <= 90 THEN c + 32 ELSE c

LowerStr(s) == [i \in 1..Len(s) |-> Lower(s[i])]

\* Path.suffix: from the last dot, unless the name starts or ends with it
Suffix(name) ==
    LET dots == { i \in 1..Len(name) : name[i] = 46 }
        i == IF dots = {} THEN 0 ELSE Max(dots)
    IN  IF i > 1 /\ i < Len(name) THEN SubSeq(name, i, Len(name)) ELSE <<>>

\* ['.png', '.jpg', '.jpeg', '.gif']
AllowedSuffixes == { <<46, 112, 110, 103>>,
                     <<46, 106, 112, 103>>,
                     <<46, 106, 112, 101, 103>>,
                     <<46, 103, 105, 102>> }

IsImage(name) == LowerStr(Suffix(name)) \in AllowedSuffixes

\* the order of sorted() on paths of one directory: by code point
PathLess(a, b) ==
    \E k \in 1..(Len(a) + 1) :
        /\ k <= Len(b)
        /\ \A i \in 1..(k - 1) : a[i] = b[i]
        /\ (k = Len(a) + 1 \/ a[k] < b[k])

RECURSIVE Sorted(_)
Sorted(S) ==
    IF S = {} THEN <<>>
    ELSE LET m == CHOOSE x \in S : \A y \in S \ {x} : PathLess(x, y)
         IN  <<m>> \o Sorted(S \ {m})

RECURSIVE Filter(_)
Filter(s) ==
    IF s = <<>> THEN <<>>
    ELSE IF IsImage(Head(s)) THEN <<Head(s)>> \o Filter(Tail(s))
    ELSE Filter(Tail(s))

\* the loop over sorted(media_dir.iterdir())
ListImages(media) == Filter(Sorted(media))

\* ZipFile(...) or extractall raises
ExtractFails(a) == ~a.zip \/ a.bad > 0

\* the ppt/media members extractall has written when it returns or raises
Unpacked(a) ==
    IF ~a.zip THEN {}
    ELSE IF a.bad = 0 THEN Range(a.media)
    ELSE { a.media[i] : i \in 1..(IF a.bad < Len(a.media) THEN a.bad ELSE Len(a.media)) }

\* extractall(temp_extract): writes into the directory, keeping what is there
ExtractAll(temp, a) ==
    IF ~a.zip THEN temp
    ELSE [exists |-> TRUE, media |-> temp.media \cup Unpacked(a)]

\* without the except branch's return: what was listed is returned
extract_images_unguarded(a, temp) ==
    [images |-> ListImages(ExtractAll(temp, a).media),
     temp_ref |-> ~ExtractFails(a),
     temp |-> ExtractAll(temp, a)]

\* images and temp_extract as returned, and the directory on disk
extract_images_from_pptx(a, temp) ==
    IF ExtractFails(a)
    THEN [images |-> <<>>, temp_ref |-> FALSE, temp |-> ExtractAll(temp, a)]
    ELSE [images |-> ListImages(ExtractAll(temp, a).media),
          temp_ref |-> TRUE,
          temp |-> ExtractAll(temp, a)]

(***************************************************************************)
(* convert_pptx_to_markdown                                                *)
(***************************************************************************)
NoTemp == [exists |-> FALSE, media |-> {}]
NoDoc == [exists |-> FALSE, chunks |-> <<>>]
NoImgDir == [exists |-> FALSE, files |-> {}]

\* img_dir.mkdir(exist_ok=True) and shutil.copy2 of the first n images
CopyImages(dir, imgs, n) ==
    [exists |-> TRUE, files |-> dir.files \cup { imgs[i] : i \in 1..n }]

\* check=False: never raises
CheckIgnored(rc) == FALSE

\* subprocess.run(..., check=True) raises CalledProcessError
CheckRaises(rc) == rc # 0

\* the output of date: the clock moves between two runs of the program
Now == runs

\* header + markdown_content
Document(stem, ts, stdout) ==
    [title |-> stem, source |-> <<stem, ".pptx">>, converted |-> ts, body |-> stdout]

\* open(md_path, 'a') and f.write
WriteDocAppend(doc, content) == [exists |-> TRUE, chunks |-> Append(doc.chunks, content)]

\* open(md_path, 'w') and f.write
WriteDoc(doc, content) == [exists |-> TRUE, chunks |-> <<content>>]

\* open(md_path, 'w') succeeded and f.write raised
Truncate(doc) == [exists |-> TRUE, chunks |-> <<>>]

\* finally: rmtree when temp_extract is set and exists
Cleanup(ref, temp) == IF ref /\ temp.exists THEN NoTemp ELSE temp

Init ==
    /\ pc = "idle"
    /\ runs = 0
    /\ mode = "batch"
    /\ keep_images = FALSE
    /\ tool_ok = TRUE
    /\ pptx_files = <<>>
    /\ queue = <<>>
    /\ processed = <<>>
    /\ successful = 0
    /\ failed = 0
    /\ exit_code = 0
    /\ cur = "deck"
    /\ archive = NoArchive
    /\ images = <<>>
    /\ temp_ref = FALSE
    /\ returncode = -1
    /\ markdown_content = "slides-v1"
    /\ result = "none"
    /\ temp_extract = NoTemp
    /\ docs = [s \in Stems |-> NoDoc]
    /\ img_dirs = [s \in Stems |-> NoImgDir]
    /\ doc0 = NoDoc
    /\ img_dir0 = NoImgDir

disk == <<temp_extract, docs, img_dirs>>
args == <<runs, mode, keep_images, tool_ok, pptx_files>>
tally == <<successful, failed>>
frame == <<cur, archive, images, temp_ref, returncode, markdown_content, doc0, img_dir0>>

\* no invocation of convert_pptx_to_markdown is active: its locals are gone
NoFrame ==
    /\ cur' = "deck"
    /\ archive' = NoArchive
    /\ images' = <<>>
    /\ temp_ref' = FALSE
    /\ returncode' = -1
    /\ markdown_content' = "slides-v1"
    /\ doc0' = NoDoc
    /\ img_dir0' = NoImgDir

\* main: the startup check fails, sys.exit(1)
MainToolMissing ==
    /\ pc = "idle"
    /\ runs' = runs + 1
    /\ \E m \in {"single", "batch"}, k \in BOOLEAN, fs \in InputLists :
        /\ m = "single" => Len(fs) = 1
        /\ mode' = m
        /\ keep_images' = k
        /\ pptx_files' = fs
    /\ tool_ok' = FALSE
    /\ exit_code' = 1
    /\ pc' = "exited"
    /\ UNCHANGED <<queue, processed, tally, result, frame, disk>>

\* main with -f: convert_pptx_to_markdown(args.file, ...)
MainSingle ==
    /\ pc = "idle"
    /\ runs' = runs + 1
    /\ \E k \in BOOLEAN, f \in Stems :
        /\ keep_images' = k
        /\ pptx_files' = <<f>>
        /\ queue' = <<f>>
    /\ mode' = "single"
    /\ tool_ok' = TRUE
    /\ pc' = "extract"
    /\ UNCHANGED <<processed, tally, exit_code, result, frame, disk>>

\* main without -f: batch_convert up to the loop
MainBatch ==
    /\ pc = "idle"
    /\ runs' = runs + 1
    /\ \E k \in BOOLEAN, fs \in InputLists :
        /\ keep_images' = k
        /\ pptx_files' = fs
        /\ queue' = fs
        /\ pc' = IF fs = <<>> THEN "exited" ELSE "extract"
    /\ mode' = "batch"
    /\ tool_ok' = TRUE
    /\ UNCHANGED <<processed, tally, exit_code, result, frame, disk>>

\* convert_pptx_to_markdown up to the return of extract_images_from_pptx
Extract ==
    /\ pc = "extract"
    /\ \E a \in Archives :
        LET r == extract_images_from_pptx(a, temp_extract)
        IN  /\ archive' = a
            /\ images' = r.images
            /\ temp_ref' = r.temp_ref
            /\ temp_extract' = r.temp
    /\ cur' = Head(queue)
    /\ processed' = Append(processed, Head(queue))
    /\ doc0' = docs[Head(queue)]
    /\ img_dir0' = img_dirs[Head(queue)]
    /\ result' = "none"
    /\ pc' = "copy"
    /\ UNCHANGED <<args, queue, tally, exit_code, returncode, markdown_content,
                   docs, img_dirs>>

\* if images and keep_images: every image is copied
Copy ==
    /\ pc = "copy"
    /\ img_dirs' = IF images # <<>> /\ keep_images
                   THEN [img_dirs EXCEPT ![cur] = CopyImages(@, images, Len(images))]
                   ELSE img_dirs
    /\ pc' = "convert"
    /\ UNCHANGED <<args, queue, processed, tally, exit_code, result, frame,
                   temp_extract, docs>>

\* shutil.copy2 raises at image n: the exception leaves the function
CopyError ==
    /\ pc = "copy"
    /\ images # <<>> /\ keep_images
    /\ \E n \in 1..Len(images) :
        img_dirs' = [img_dirs EXCEPT ![cur] = CopyImages(@, images, n - 1)]
    /\ result' = "raised"
    /\ pc' = "returned"
    /\ UNCHANGED <<args, queue, processed, tally, exit_code, frame, temp_extract, docs>>

\* the converter cannot be started: FileNotFoundError leaves the function
ConvertNotLaunched ==
    /\ pc = "convert"
    /\ result' = "raised"
    /\ temp_extract' = Cleanup(temp_ref, temp_extract)
    /\ pc' = "returned"
    /\ UNCHANGED <<args, queue, processed, tally, exit_code, frame, docs, img_dirs>>

\* the converter exits and check=True raises: return False
ConvertFailed ==
    /\ pc = "convert"
    /\ \E rc \in ReturnCodes :
        /\ CheckRaises(rc)
        /\ returncode' = rc
    /\ result' = "False"
    /\ temp_extract' = Cleanup(temp_ref, temp_extract)
    /\ pc' = "returned"
    /\ UNCHANGED <<args, queue, processed, tally, exit_code, cur, archive, images,
                   temp_ref, markdown_content, doc0, img_dir0, docs, img_dirs>>

\* the converter exits and check=True does not raise
ConvertOk ==
    /\ pc = "convert"
    /\ \E rc \in ReturnCodes, out \in StdOuts :
        /\ ~CheckRaises(rc)
        /\ returncode' = rc
        /\ markdown_content' = out
    /\ pc' = "write"
    /\ UNCHANGED <<args, queue, processed, tally, exit_code, cur, archive, images,
                   temp_ref, doc0, img_dir0, result, disk>>

\* the document is written: return True
Write ==
    /\ pc = "write"
    /\ docs' = [docs EXCEPT ![cur] = WriteDoc(@, Document(cur, Now, markdown_content))]
    /\ result' = "True"
    /\ temp_extract' = Cleanup(temp_ref, temp_extract)
    /\ pc' = "returned"
    /\ UNCHANGED <<args, queue, processed, tally, exit_code, frame, img_dirs>>

\* open or f.write raises OSError, which leaves the function
WriteError ==
    /\ pc = "write"
    /\ \/ docs' = docs
       \/ docs' = [docs EXCEPT ![cur] = Truncate(@)]
    /\ result' = "raised"
    /\ temp_extract' = Cleanup(temp_ref, temp_extract)
    /\ pc' = "returned"
    /\ UNCHANGED <<args, queue, processed, tally, exit_code, frame, img_dirs>>

\* batch_convert: the tally, then the next file or the summary
BatchTally ==
    /\ pc = "returned"
    /\ mode = "batch"
    /\ result \in {"True", "False"}
    /\ successful' = IF result = "True" THEN successful + 1 ELSE successful
    /\ failed' = IF result = "True" THEN failed ELSE failed + 1
    /\ queue' = Tail(queue)
    /\ pc' = IF Tail(queue) = <<>> THEN "exited" ELSE "extract"
    /\ NoFrame
    /\ UNCHANGED <<args, processed, exit_code, result, disk>>

\* main with -f: sys.exit(1) when the conversion returned False
SingleDone ==
    /\ pc = "returned"
    /\ mode = "single"
    /\ result \in {"True", "False"}
    /\ exit_code' = IF result = "True" THEN 0 ELSE 1
    /\ queue' = Tail(queue)
    /\ pc' = "exited"
    /\ NoFrame
    /\ UNCHANGED <<args, processed, tally, result, disk>>

\* an exception nothing catches ends the process with status 1
Uncaught ==
    /\ pc = "returned"
    /\ result = "raised"
    /\ exit_code' = 1
    /\ pc' = "exited"
    /\ NoFrame
    /\ UNCHANGED <<args, queue, processed, tally, result, disk>>

\* the program is started again on the same output directory
Rerun ==
    /\ pc = "exited"
    /\ runs < MaxRuns
    /\ pc' = "idle"
    /\ mode' = "batch"
    /\ keep_images' = FALSE
    /\ tool_ok' = TRUE
    /\ pptx_files' = <<>>
    /\ queue' = <<>>
    /\ processed' = <<>>
    /\ successful' = 0
    /\ failed' = 0
    /\ exit_code' = 0
    /\ result' = "none"
    /\ UNCHANGED <<runs, frame, disk>>

Next ==
    \/ MainToolMissing
    \/ MainSingle
    \/ MainBatch
    \/ Extract
    \/ Copy
    \/ CopyError
    \/ ConvertNotLaunched
    \/ ConvertFailed
    \/ ConvertOk
    \/ Write
    \/ WriteError
    \/ BatchTally
    \/ SingleDone
    \/ Uncaught

\* one run of the program on an empty output directory
Spec == Init /\ [][Next]_vars

NextRerun ==
    \/ MainSingle
    \/ Extract
    \/ Copy
    \/ CopyError
    \/ ConvertNotLaunched
    \/ ConvertFailed
    \/ ConvertOk
    \/ Write
    \/ WriteError
    \/ SingleDone
    \/ Uncaught
    \/ Rerun

\* runs of the program with -f, one after the other, on one output directory
SpecRerun == Init /\ [][NextRerun]_vars

(***************************************************************************)
(* Properties                                                              *)
(***************************************************************************)
InCall == pc \in {"copy", "convert", "write", "returned"}

\* .png, .jpg, .jpeg, .gif
ClaimedExtensions == { <<46, 112, 110, 103>>,
                       <<46, 106, 112, 103>>,
                       <<46, 106, 112, 101, 103>>,
                       <<46, 103, 105, 102>> }

\* c is the code point d or its upper-case letter
SameLetter(c, d) == c = d \/ (d >= 97 /\ d <= 122 /\ c = d - 32)

\* a name ends, whatever the case of its letters, with an allowed extension
EndsWith(name, ext) ==
    /\ Len(name) > Len(ext)
    /\ \A i \in 1..Len(ext) : SameLetter(name[Len(name) - Len(ext) + i], ext[i])

HasAllowedExtension(name) == \E ext \in ClaimedExtensions : EndsWith(name, ext)

\* a comes before b in the lexicographic order of their code points
Before(a, b) ==
    \/ /\ Len(a) < Len(b)
       /\ \A i \in 1..Len(a) : a[i] = b[i]
    \/ \E k \in 1..Len(a) :
        /\ k <= Len(b)
        /\ a[k] < b[k]
        /\ \A i \in 1..(k - 1) : a[i] = b[i]

Ascending(s) == \A i, j \in 1..Len(s) : i < j => Before(s[i], s[j])

OwnImages(a) == { n \in Range(a.media) : HasAllowedExtension(n) }

SameButTimestamp(a, b) == a.title = b.title /\ a.source = b.source /\ a.body = b.body

Complete(doc) == doc.exists /\ Len(doc.chunks) = 1

\* C1: when convert_pptx_to_markdown has returned, and so before the next
\* file starts and when the process ends, temp_extract is not on disk.
C1_NoTempAfterReturn ==
    pc \in {"returned", "extract", "exited"} => ~temp_extract.exists

\* C2: a converter that exits non-zero makes the function return False with
\* <stem>.md as it was when the call started, and <stem>.md differs from
\* what it was only once the converter has exited with status zero.
C2_NonZeroNoWrite ==
    /\ (pc = "returned" /\ returncode > 0) => (result = "False" /\ docs[cur] = doc0)
    /\ (InCall /\ docs[cur] # doc0) => returncode = 0

C2_Witness ==
    pc = "returned" /\ returncode > 0 /\ Complete(doc0)

\* C3: a batch run ends with every file passed to the pipeline exactly once,
\* in order, and with successful + failed equal to the number of files.
C3_BatchCompletes ==
    (pc = "exited" /\ mode = "batch" /\ tool_ok) =>
        /\ processed = pptx_files
        /\ successful + failed = Len(pptx_files)

\* C4: for a valid archive, the images returned are exactly the ppt/media
\* entries of the archive with an allowed extension, in lexicographic order.
C4_ExactImagesSorted ==
    (pc = "copy" /\ ~ExtractFails(archive)) =>
        /\ Range(images) = OwnImages(archive)
        /\ Len(images) = Cardinality(OwnImages(archive))
        /\ Ascending(images)

\* C5: when unpacking fails, the extractor returns no image and no
\* directory; the pipeline copies nothing and goes on to the converter.
C5_ExtractFailureRecovered ==
    /\ []((InCall /\ ExtractFails(archive)) =>
            (images = <<>> /\ ~temp_ref /\ img_dirs[cur] = img_dir0))
    /\ [][(pc = "copy" /\ ExtractFails(archive)) => pc' = "convert"]_vars

C5_Witness ==
    /\ pc = "returned" /\ result = "True"
    /\ archive.zip /\ archive.bad > 0 /\ archive.media # <<>>
    /\ keep_images

\* C6: when the function returns False, <stem>.md and <stem>_images are as
\* they were when the call started.
C6_NoOutputOnFailure ==
    (pc = "returned" /\ result = "False") =>
        (docs[cur] = doc0 /\ img_dirs[cur] = img_dir0)

\* C7: the exit status is non-zero exactly when the startup check failed or
\* a file named with -f was not converted; a failed startup check processes
\* no file.
C7_ExitCode ==
    pc = "exited" =>
        /\ exit_code # 0 <=> (~tool_ok \/ (mode = "single" /\ result # "True"))
        /\ ~tool_ok => processed = <<>>

\* C8: a valid archive without ppt/media yields no image and the reference
\* to temp_extract, and the directory is gone when the function returns.
C8_NoMediaFolder ==
    (archive.zip /\ archive.bad = 0 /\ archive.media = <<>>) =>
        /\ InCall => (images = <<>> /\ temp_ref)
        /\ pc = "returned" => ~temp_extract.exists

\* C9: a successful run leaves in <stem>.md the one document it wrote, with
\* the converter's output and its own timestamp; when the file held the
\* document of an earlier run with the same converter output, the two
\* differ at most in the timestamp.
C9_RerunOverwrites ==
    (pc = "returned" /\ result = "True") =>
        /\ Complete(docs[cur])
        /\ docs[cur].chunks[1].body = markdown_content
        /\ docs[cur].chunks[1].converted = Now
        /\ (Complete(doc0) /\ doc0.chunks[1].body = markdown_content) =>
              SameButTimestamp(doc0.chunks[1], docs[cur].chunks[1])

C9_Witness ==
    /\ pc = "returned" /\ result = "True"
    /\ Complete(doc0) /\ doc0.chunks[1].body = markdown_content
    /\ doc0.chunks[1].converted # docs[cur].chunks[1].converted

\* C10: a file is unpacked into a directory that does not exist yet, and
\* the images returned and copied for it are entries of its own archive:
\* all its allowed entries when the archive unpacks.
C10_OwnImagesOnly ==
    /\ pc = "extract" => ~temp_extract.exists
    /\ InCall =>
        /\ Range(images) \subseteq OwnImages(archive)
        /\ (img_dirs[cur].files \ img_dir0.files) \subseteq OwnImages(archive)
        /\ ~ExtractFails(archive) => Range(images) = OwnImages(archive)
====
